---- MODULE Spec2Model ----
(***************************************************************************)
(* A model of the cybercrime text classifier (src/src/notebook.ipynb) and  *)
(* of the exploratory rare-class cell (src/unnamed/part_000).              *)
(*                                                                         *)
(* A text is a sequence of one-character strings.  A record is a row of    *)
(* the dataframe: crimeaditionalinfo, category, sub_category.  A dataset   *)
(* is a sequence of records (row order is kept by every pandas selection). *)
(* Probabilities are integer percentages (0.3 is 30).                      *)
(***************************************************************************)
EXTENDS Integers, Sequences, FiniteSets, TLC

VARIABLES
    min_samples_per_class,  \* self.min_samples_per_class
    self_stop_words,        \* self.stop_words
    label_encoders,         \* self.label_encoders: column -> classes_ (<<>> before any fit)
    models,                 \* self.models: column -> None | unfitted | fitted model
    persisted,              \* artifacts written by train_and_save_model
    call,                   \* the operation that ran last
    arg,                    \* its input
    ret,                    \* what it returned, or the error it raised
    consulted,              \* the columns whose model the last predict queried
    pc,                     \* where the running operation stands ("idle": none runs)
    frame,                  \* the locals of the running operation
    before                  \* self.models and the artifacts as the running operation found them

vars == <<min_samples_per_class, self_stop_words, label_encoders, models, persisted,
          call, arg, ret, consulted, pc, frame, before>>

----------------------------------------------------------------------------
(* Bounds of the model *)

\* longest dataset handed to the class filter
MaxRows == 6
\* longest dataset handed to the classifier's prepare_data / train
MaxTrainRows == 2
\* largest min_samples_per_class a classifier is constructed with
MaxT == 2
\* longest array of encoded labels handed to build_model
MaxLabels == 4
\* largest class id in such an array
MaxClassId == 2

----------------------------------------------------------------------------
(* Columns and labels *)

Columns == <<"category", "sub_category">>
ColumnSet == {"category", "sub_category"}
Unknown == "Unknown"
None == "None"

----------------------------------------------------------------------------
(* Text Normalizer: CybercrimeClassifier.preprocess_text (the second       *)
(* definition in the class body, which is the one Python binds).           *)

upper_letters == <<"A", "B", "C", "D", "E", "F", "G", "H", "I", "J", "K", "L", "M",
                   "N", "O", "P", "Q", "R", "S", "T", "U", "V", "W", "X", "Y", "Z">>
lower_letters == <<"a", "b", "c", "d", "e", "f", "g", "h", "i", "j", "k", "l", "m",
                   "n", "o", "p", "q", "r", "s", "t", "u", "v", "w", "x", "y", "z">>

IsUpper(ch) == \E i \in 1..26 : upper_letters[i] = ch
IsLower(ch) == \E i \in 1..26 : lower_letters[i] = ch
IsSpace(ch) == ch \in {" ", "\t", "\n"}

\* str.lower(), one character
lower_char(ch) ==
    IF IsUpper(ch)
    THEN lower_letters[CHOOSE i \in 1..26 : upper_letters[i] = ch]
    ELSE ch

\* text.lower()
lower(text) == [i \in 1..Len(text) |-> lower_char(text[i])]

\* re.sub(r"[^a-zA-Z\s]", "", text)
IsKept(ch) == IsUpper(ch) \/ IsLower(ch) \/ IsSpace(ch)
strip_special(text) == SelectSeq(text, IsKept)

\* word_tokenize on a text of letters and whitespace: the maximal runs of letters
RECURSIVE tokenize_from(_, _, _)
tokenize_from(text, i, cur) ==
    IF i > Len(text)
    THEN IF cur = <<>> THEN <<>> ELSE <<cur>>
    ELSE IF IsSpace(text[i])
         THEN (IF cur = <<>> THEN <<>> ELSE <<cur>>) \o tokenize_from(text, i + 1, <<>>)
         ELSE tokenize_from(text, i + 1, Append(cur, text[i]))

word_tokenize(text) == tokenize_from(text, 1, <<>>)

\* stopwords.words("english"): the entries the model's vocabulary can meet
english_stop_words ==
    { <<"i">>, <<"m", "e">>, <<"m", "y">>, <<"w", "e">>, <<"y", "o", "u">>,
      <<"t", "h", "e">>, <<"a">>, <<"a", "n">>, <<"a", "n", "d">>, <<"o", "n">>,
      <<"i", "n">>, <<"o", "f">>, <<"t", "o">>, <<"i", "s">>, <<"w", "a", "s">>,
      <<"h", "a", "s">>, <<"h", "a", "v", "e">>, <<"i", "t">>,
      <<"t", "h", "i", "s">>, <<"t", "h", "a", "t">> }

\* ['please', 'help', 'thank', 'thanks', 'sir', 'madam', 'kindly']
domain_stop_words ==
    { <<"p", "l", "e", "a", "s", "e">>, <<"h", "e", "l", "p">>,
      <<"t", "h", "a", "n", "k">>, <<"t", "h", "a", "n", "k", "s">>,
      <<"s", "i", "r">>, <<"m", "a", "d", "a", "m">>,
      <<"k", "i", "n", "d", "l", "y">> }

\* self.stop_words, as __init__ builds it
stop_words == english_stop_words \cup domain_stop_words

\* WordNetLemmatizer.lemmatize (noun lemmas): the dictionary entries the
\* vocabulary can meet, every other token is its own lemma
lemmatize(token) ==
    CASE token = <<"f", "r", "a", "u", "d", "s">> -> <<"f", "r", "a", "u", "d">>
      [] token = <<"a", "c", "c", "o", "u", "n", "t", "s">> -> <<"a", "c", "c", "o", "u", "n", "t">>
      [] token = <<"s", "c", "a", "m", "s">> -> <<"s", "c", "a", "m">>
      [] token = <<"h", "e", "l", "p", "s">> -> <<"h", "e", "l", "p">>
      [] OTHER -> token

\* the comprehension's condition: token not in self.stop_words and len(token) > 2
keep_token(token) == token \notin stop_words /\ Len(token) > 2

\* a comprehension that lemmatizes first and filters the lemmas
RECURSIVE lemmatize_and_filter(_)
lemmatize_and_filter(tokens) ==
    IF tokens = <<>> THEN <<>>
    ELSE (IF keep_token(lemmatize(Head(tokens))) THEN <<lemmatize(Head(tokens))>> ELSE <<>>)
         \o lemmatize_and_filter(Tail(tokens))

\* [lemmatize(token) for token in tokens if keep_token(token)]
RECURSIVE filter_and_lemmatize(_)
filter_and_lemmatize(tokens) ==
    IF tokens = <<>> THEN <<>>
    ELSE (IF keep_token(Head(tokens)) THEN <<lemmatize(Head(tokens))>> ELSE <<>>)
         \o filter_and_lemmatize(Tail(tokens))

\* " ".join(tokens)
RECURSIVE join(_)
join(tokens) ==
    IF tokens = <<>> THEN <<>>
    ELSE IF Len(tokens) = 1 THEN Head(tokens)
    ELSE Head(tokens) \o <<" ">> \o join(Tail(tokens))

\* preprocess_text on a str: no step of it raises on a str
preprocess_text(text) ==
    join(filter_and_lemmatize(word_tokenize(strip_special(lower(text)))))

\* the same statements reading the stop words of a given classifier
RECURSIVE filter_and_lemmatize_with(_, _)
filter_and_lemmatize_with(words, tokens) ==
    IF tokens = <<>> THEN <<>>
    ELSE (IF Head(tokens) \notin words /\ Len(Head(tokens)) > 2
          THEN <<lemmatize(Head(tokens))>> ELSE <<>>)
         \o filter_and_lemmatize_with(words, Tail(tokens))

preprocess_text_with(words, text) ==
    join(filter_and_lemmatize_with(words, word_tokenize(strip_special(lower(text)))))

----------------------------------------------------------------------------
(* Texts the model feeds in *)

TextFraud == <<"U", "p", "i", " ", "f", "r", "a", "u", "d", "s", " ", "4", "2", " ",
               "o", "n", " ", "b", "a", "n", "k", " ", "a", "c", "c", "o", "u", "n", "t", "s">>
TextPolite == <<"P", "l", "e", "a", "s", "e", " ", "h", "e", "l", "p", " ", "m", "e", " ",
                "s", "i", "r", ",", " ", "t", "h", "a", "n", "k", " ", "y", "o", "u">>
TextEmpty == <<>>
\* the text prepare_data gives its synthetic record
TextUnknownCase == <<"u", "n", "k", "n", "o", "w", "n", " ", "c", "a", "s", "e">>

\* texts of dataset records, and texts handed to predict
RecordTexts == {TextFraud, TextPolite}
PredictTexts == {TextFraud, TextPolite, TextEmpty}

\* preprocess_text tabulated over every text the model meets
processed == [t \in RecordTexts \cup PredictTexts \cup {TextUnknownCase} |-> preprocess_text(t)]

----------------------------------------------------------------------------
(* Records and datasets *)

Categories == {"Fraud", "Spam"}
SubCategories == {"Phishing", "Upi"}

Record(text, category, sub_category) ==
    [crimeaditionalinfo |-> text, category |-> category, sub_category |-> sub_category]

\* every sequence of at most n records drawn from kinds
SeqsUpTo(kinds, n) == UNION {[1..k -> kinds] : k \in 0..n}

\* the records the class filter is exercised on: it never reads the text
FilterRecords == {Record(TextFraud, c, s) : c \in Categories, s \in SubCategories}
FilterDatasets == SeqsUpTo(FilterRecords, MaxRows)

\* a returned value, or the exception that left the call
Returned(value) == [error |-> None, value |-> value]
Raised(error) == [error |-> error, value |-> <<>>]

----------------------------------------------------------------------------
(* Class Filter: CybercrimeClassifier.filter_rare_classes *)

\* df[column].value_counts(), read at one value
value_count(df, column, v) == Cardinality({i \in 1..Len(df) : df[i][column] = v})

\* df[column].unique()
unique(df, column) == {df[i][column] : i \in 1..Len(df)}

\* counts[counts >= self.min_samples_per_class].index
valid_classes(df, column, T) == {v \in unique(df, column) : value_count(df, column, v) >= T}

\* df[df[column].isin(classes)]
isin(df, column, classes) ==
    LET Keep(r) == r[column] \in classes
    IN SelectSeq(df, Keep)

\* one pass of the loop body: the counts are taken on the dataframe as the
\* previous pass left it
filter_column(df, column, T) == isin(df, column, valid_classes(df, column, T))

\* a variant that takes both columns' counts on the dataframe it was given
filter_rare_classes_counts_on_input(df, T) ==
    LET df1 == isin(df, Columns[1], valid_classes(df, Columns[1], T))
        df2 == isin(df1, Columns[2], valid_classes(df, Columns[2], T))
    IN IF Len(df2) = 0
       THEN Raised("ValueError: No samples remaining after filtering rare classes")
       ELSE Returned(df2)

\* for column in ['category', 'sub_category']: ... ; raise when nothing is left
\* a filter that hands back an empty dataset instead of raising
filter_rare_classes_returns_empty(df, T) ==
    Returned(filter_column(filter_column(df, Columns[1], T), Columns[2], T))

filter_rare_classes(df, T) ==
    LET df1 == filter_column(df, Columns[1], T)
        df2 == filter_column(df1, Columns[2], T)
    IN IF Len(df2) = 0
       THEN Raised("ValueError: No samples remaining after filtering rare classes")
       ELSE Returned(df2)

----------------------------------------------------------------------------
(* The rare-class cell of the exploratory notebook (src/unnamed/part_000) *)

min_instances == 5

\* both counts are taken on combined_df, then one selection is made
rare_class_cell(combined_df) ==
    LET valid_categories == valid_classes(combined_df, "category", min_instances)
        valid_sub_categories == valid_classes(combined_df, "sub_category", min_instances)
        Keep(r) == r.category \in valid_categories /\ r.sub_category \in valid_sub_categories
    IN SelectSeq(combined_df, Keep)

----------------------------------------------------------------------------
(* Label Encoder: sklearn's LabelEncoder as prepare_data and predict use it *)

\* the label names of the model in the order np.unique sorts them
LabelOrder == <<"Fraud", "Phishing", "Spam", "Unknown", "Upi">>

\* LabelEncoder.fit: classes_ is the sorted sequence of the distinct labels
fit_classes(labels) ==
    LET Present(v) == v \in labels
    IN SelectSeq(LabelOrder, Present)

\* LabelEncoder.transform of one label: its position in classes_, from 0
encode(classes_, name) == (CHOOSE i \in 1..Len(classes_) : classes_[i] = name) - 1

\* the records the classifier is trained on: one that normalizes to a text,
\* one with the same labels that normalizes to nothing, one with other
\* labels, one already labelled Unknown
TrainRecords ==
    {Record(TextFraud, "Fraud", "Upi"),
     Record(TextPolite, "Fraud", "Upi"),
     Record(TextFraud, "Spam", "Phishing"),
     Record(TextFraud, Unknown, Unknown)}
\* a dataset large enough to train on when min_samples_per_class is 2
TwoClassDataset ==
    <<Record(TextFraud, "Fraud", "Upi"), Record(TextFraud, "Fraud", "Upi"),
      Record(TextFraud, "Spam", "Phishing"), Record(TextFraud, "Spam", "Phishing")>>

TrainDatasets == SeqsUpTo(TrainRecords, MaxTrainRows) \cup {TwoClassDataset}

----------------------------------------------------------------------------
(* CybercrimeClassifier.prepare_data *)

\* an injection that adds the synthetic record twice
add_unknown_twice(df, column) ==
    IF Unknown \in unique(df, column)
    THEN df
    ELSE LET unknown_row == [df[1] EXCEPT ![column] = Unknown,
                                          !.crimeaditionalinfo = TextUnknownCase]
         IN Append(Append(df, unknown_row), unknown_row)

\* the loop that adds one synthetic record per column without an "Unknown"
add_unknown(df, column) ==
    IF Unknown \in unique(df, column)
    THEN df
    ELSE Append(df, [df[1] EXCEPT ![column] = Unknown,
                                  !.crimeaditionalinfo = TextUnknownCase])

\* df[df['processed_text'].str.len() > 0]
drop_empty_processed(df) ==
    LET NonEmpty(r) == Len(processed[r.crimeaditionalinfo]) > 0
    IN SelectSeq(df, NonEmpty)

\* the row prepare_data returns for a surviving record
prepared_row(r, encoders) ==
    [crimeaditionalinfo |-> r.crimeaditionalinfo,
     category |-> r.category,
     sub_category |-> r.sub_category,
     processed_text |-> processed[r.crimeaditionalinfo],
     category_encoded |-> encode(encoders["category"], r.category),
     sub_category_encoded |-> encode(encoders["sub_category"], r.sub_category)]

\* the columns of a row that prepare_data reads (it overwrites the others)
base_row(r) == Record(r.crimeaditionalinfo, r.category, r.sub_category)
base_rows(df) == [i \in 1..Len(df) |-> base_row(df[i])]

\* prepare_data(df): the value returned or the error raised, and
\* self.label_encoders as the call leaves it
prepare_data(df, T, encoders_before) ==
    IF Len(df) = 0
    THEN \* df.iloc[0] on an empty dataframe
         [error |-> "IndexError: single positional indexer is out-of-bounds",
          value |-> <<>>, label_encoders |-> encoders_before]
    ELSE
    LET with_unknown == add_unknown(add_unknown(df, Columns[1]), Columns[2])
        filtered == filter_rare_classes(with_unknown, T)
    IN IF filtered.error # None
       THEN [error |-> filtered.error, value |-> <<>>, label_encoders |-> encoders_before]
       ELSE
       LET kept == drop_empty_processed(filtered.value)
           encoders == [c \in ColumnSet |-> fit_classes(unique(kept, c))]
       IN [error |-> None,
           value |-> [i \in 1..Len(kept) |-> prepared_row(kept[i], encoders)],
           label_encoders |-> encoders]

----------------------------------------------------------------------------
(* The fitted pipeline (GridSearchCV over TfidfVectorizer + RandomForest)  *)
(* as predict and train use it.  What the library answers is not decided   *)
(* by this repository: a fit either raises or leaves a model that answers  *)
(* with one probability vector over the classes it was fitted on.          *)

NoModel == [state |-> "None"]
UnfittedModel == [state |-> "unfitted"]
FittedModel(probas) == [state |-> "fitted", probas |-> probas]

\* the confidence threshold of predict, 0.3, as a percentage
ConfidenceThreshold == 30

\* the probability of the other classes, and those the likeliest class can
\* get: just below the threshold and at it
LowProba == 10
ProbaLevels == {29, 30}

\* the vectors a model fitted on n classes can answer with
ProbaVectors(n) ==
    {[i \in 1..n |-> IF i = k THEN p ELSE LowProba] : k \in 1..n, p \in ProbaLevels}

\* self.models[column].predict_proba([processed_text])[0]
predict_proba(model) ==
    IF model.state = "fitted"
    THEN Returned(model.probas)
    ELSE Raised("NotFittedError")

\* max(probas)
py_max(probas) == CHOOSE m \in {probas[i] : i \in 1..Len(probas)} :
                      \A i \in 1..Len(probas) : probas[i] <= m

\* self.models[column].predict([processed_text])[0]: the class id of the
\* first largest probability
model_predict(model) ==
    (CHOOSE i \in 1..Len(model.probas) :
        /\ model.probas[i] = py_max(model.probas)
        /\ \A j \in 1..(i - 1) : model.probas[j] < model.probas[i]) - 1

----------------------------------------------------------------------------
(* Predictor: CybercrimeClassifier.predict and _get_unknown_prediction *)

confidence_key == [category |-> "category_confidence",
                   sub_category |-> "sub_category_confidence"]

\* results.update(new), results[key] = value: new keys win
update(results, new) == new @@ results

EmptyDict == [k \in {} |-> 0]

\* a fallback that gives the column its label and no confidence
get_unknown_prediction_label_only(column) == (column :> Unknown)

\* _get_unknown_prediction(column)
get_unknown_prediction_column(column) ==
    (column :> Unknown) @@ (confidence_key[column] :> 0)

\* _get_unknown_prediction()
get_unknown_prediction ==
    ("category" :> Unknown) @@ ("category_confidence" :> 0) @@
    ("sub_category" :> Unknown) @@ ("sub_category_confidence" :> 0)

\* a decoder that reads the name from the table of all labels
decode_by_label_order(classes_, prediction) == LabelOrder[prediction + 1]

\* self.label_encoders[column].classes_[prediction]
decode(classes_, prediction) == classes_[prediction + 1]

\* a predict_column that reports the confidence it found below the threshold
predict_column_keeps_low_confidence(column, model, classes_) ==
    LET probas == predict_proba(model)
    IN IF probas.error # None
       THEN get_unknown_prediction_column(column)
       ELSE LET max_proba == py_max(probas.value)
                prediction == model_predict(model)
            IN IF max_proba < ConfidenceThreshold
               THEN (column :> Unknown) @@ (confidence_key[column] :> max_proba)
               ELSE IF prediction >= Len(classes_)
                    THEN get_unknown_prediction_column(column)
                    ELSE (column :> decode(classes_, prediction)) @@
                         (confidence_key[column] :> max_proba)

\* the inner try of the loop body, for one column
predict_column(column, model, classes_) ==
    LET probas == predict_proba(model)
    IN IF probas.error # None
       THEN get_unknown_prediction_column(column)
       ELSE LET max_proba == py_max(probas.value)
                prediction == model_predict(model)
            IN IF max_proba < ConfidenceThreshold
               THEN (column :> Unknown) @@ (confidence_key[column] :> 0)
               ELSE IF prediction >= Len(classes_)
                    THEN \* IndexError, caught by the inner except
                         get_unknown_prediction_column(column)
                    ELSE (column :> decode(classes_, prediction)) @@
                         (confidence_key[column] :> max_proba)

\* the loop over the columns: a missing model raises outside the inner try
RECURSIVE predict_loop(_, _, _, _, _)
predict_loop(i, results, asked, the_models, encoders) ==
    IF i > Len(Columns)
    THEN [value |-> results, consulted |-> asked]
    ELSE LET column == Columns[i]
         IN IF the_models[column].state = "None"
            THEN [value |-> get_unknown_prediction, consulted |-> asked]
            ELSE predict_loop(i + 1,
                     update(results,
                            predict_column(column, the_models[column], encoders[column])),
                     asked \cup {column}, the_models, encoders)

\* a predict that does not look at the normalized text
predict_without_empty_check(text, the_models, encoders) ==
    predict_loop(1, EmptyDict, {}, the_models, encoders)

\* predict(text): the dictionary returned and the columns whose model was asked
predict(text, the_models, encoders) ==
    IF Len(processed[text]) = 0
    THEN [value |-> get_unknown_prediction, consulted |-> {}]
    ELSE predict_loop(1, EmptyDict, {}, the_models, encoders)

----------------------------------------------------------------------------
(* State after CybercrimeClassifier.__init__ *)

\* locals of train and of train_and_save_model
NoFrame == [caller |-> "", counts |-> <<>>, val_ids |-> <<>>, n_val |-> 0, col |-> 0,
            train_df_filtered |-> <<>>, train_final |-> <<>>, val_df |-> <<>>,
            train_classes |-> <<>>]
NoSnapshot == [models |-> <<>>, persisted |-> {}]

Init ==
    /\ min_samples_per_class \in 1..MaxT
    /\ self_stop_words = stop_words
    /\ label_encoders = [c \in ColumnSet |-> <<>>]
    /\ models = [c \in ColumnSet |-> NoModel]
    /\ persisted = {}
    /\ call = "__init__"
    /\ arg = <<>>
    /\ ret = Returned(<<>>)
    /\ consulted = {}
    /\ pc = "idle"
    /\ frame = NoFrame
    /\ before = NoSnapshot

classifier == <<min_samples_per_class, self_stop_words, label_encoders, models, persisted,
                pc, frame, before>>

----------------------------------------------------------------------------
(* The class filter applied to datasets: a specification of its own *)

\* each behaviour hands one dataset to one of the two filters
FilterRareClasses ==
    /\ call = "__init__"
    /\ \E df \in FilterDatasets :
        /\ call' = "filter_rare_classes"
        /\ arg' = df
        /\ ret' = filter_rare_classes(df, min_samples_per_class)
    /\ UNCHANGED <<classifier, consulted>>

\* the filter applied to the dataset it has just returned
FilterRareClassesAgain ==
    /\ call = "filter_rare_classes"
    /\ ret.error = None
    /\ call' = "filter_rare_classes again"
    /\ arg' = ret.value
    /\ ret' = filter_rare_classes(ret.value, min_samples_per_class)
    /\ UNCHANGED <<classifier, consulted>>

RareClassCell ==
    /\ call = "__init__"
    /\ \E combined_df \in FilterDatasets :
        /\ call' = "rare_class_cell"
        /\ arg' = combined_df
        /\ ret' = Returned(rare_class_cell(combined_df))
    /\ UNCHANGED <<classifier, consulted>>

NextFilter ==
    \/ FilterRareClasses
    \/ FilterRareClassesAgain
    \/ RareClassCell

SpecFilter == Init /\ [][NextFilter]_vars

----------------------------------------------------------------------------
(* The classifier's operations.  An operation starts when none runs        *)
(* (pc = "idle"); when it has returned or raised, call, arg and ret hold   *)
(* what the caller sees (pc = "returned") until the caller goes on.        *)

\* the caller receives the value or the exception
Finish(name, input, outcome) ==
    /\ pc' = "returned"
    /\ call' = name
    /\ arg' = input
    /\ ret' = outcome
    /\ frame' = NoFrame

\* an operation starts: what it finds
Snapshot == [models |-> models, persisted |-> persisted]

\* the caller goes on: the finished call's frame is gone
Return ==
    /\ pc = "returned"
    /\ pc' = "idle"
    /\ call' = "idle"
    /\ arg' = <<>>
    /\ ret' = Returned(<<>>)
    /\ consulted' = {}
    /\ before' = NoSnapshot
    /\ UNCHANGED <<min_samples_per_class, self_stop_words, label_encoders, models, persisted, frame>>

\* classifier.prepare_data(df)
PrepareData ==
    /\ pc = "idle"
    /\ \E df \in TrainDatasets :
        LET prepared == prepare_data(df, min_samples_per_class, label_encoders)
        IN /\ label_encoders' = prepared.label_encoders
           /\ Finish("prepare_data", df,
                     [error |-> prepared.error, value |-> prepared.value])
    /\ before' = Snapshot
    /\ UNCHANGED <<min_samples_per_class, self_stop_words, models, persisted, consulted>>

\* classifier.preprocess_text(text)
PreprocessText ==
    /\ pc = "idle"
    /\ \E text \in PredictTexts \cup {TextUnknownCase} :
        Finish("preprocess_text", text, Returned(preprocess_text_with(self_stop_words, text)))
    /\ before' = Snapshot
    /\ UNCHANGED <<min_samples_per_class, self_stop_words, label_encoders, models, persisted,
                   consulted>>

\* a predict that adds a token it has met to the stop words
Predict_learns_stop_words ==
    /\ pc = "idle"
    /\ \E text \in PredictTexts :
        LET answer == predict(text, models, label_encoders)
        IN /\ consulted' = answer.consulted
           /\ Finish("predict", text, Returned(answer.value))
           /\ self_stop_words' = self_stop_words \cup
                  {t \in {<<"u", "p", "i">>} : Len(processed[text]) > 0}
    /\ before' = Snapshot
    /\ UNCHANGED <<min_samples_per_class, label_encoders, models, persisted>>

\* a predict that drops the fitted models when the text normalizes to nothing
Predict_drops_models ==
    /\ pc = "idle"
    /\ \E text \in PredictTexts :
        LET answer == predict(text, models, label_encoders)
        IN /\ consulted' = answer.consulted
           /\ Finish("predict", text, Returned(answer.value))
           /\ models' = IF Len(processed[text]) = 0
                        THEN [c \in ColumnSet |-> NoModel]
                        ELSE models
    /\ before' = Snapshot
    /\ UNCHANGED <<min_samples_per_class, self_stop_words, label_encoders, persisted>>

\* classifier.predict(text)
Predict ==
    /\ pc = "idle"
    /\ \E text \in PredictTexts :
        LET answer == predict(text, models, label_encoders)
        IN /\ consulted' = answer.consulted
           /\ Finish("predict", text, Returned(answer.value))
    /\ before' = Snapshot
    /\ UNCHANGED <<min_samples_per_class, self_stop_words, label_encoders, models, persisted>>

----------------------------------------------------------------------------
(* CybercrimeClassifier.train, statement by statement.  The same steps run *)
(* inside train_and_save_model (frame.caller), whose except clauses log    *)
(* and re-raise as train's own except clause does.                         *)

\* the error leaves train, and train_and_save_model when that is the caller
RunRaises(name, error) == Finish(name, <<>>, Raised(error))

\* prepared_train_df = self.prepare_data(train_df) and the size check
train_prepare(train_df, T, encoders_before) ==
    LET prepared == prepare_data(train_df, T, encoders_before)
    IN IF prepared.error # None
       THEN prepared
       ELSE IF Len(prepared.value) < T * 2
            THEN [prepared EXCEPT !.error = "ValueError: Not enough samples for training"]
            ELSE prepared

encoded_key == [category |-> "category_encoded", sub_category |-> "sub_category_encoded"]

\* np.bincount of an encoded column holding n classes
bincount(df, column, n) ==
    [k \in 1..n |-> Cardinality({i \in 1..Len(df) : df[i][encoded_key[column]] = k - 1})]

\* the first statements of train on train_df
TrainPrepareTrainOn(name, train_df) ==
    LET prepared == train_prepare(train_df, min_samples_per_class, label_encoders)
    IN /\ label_encoders' = prepared.label_encoders
       /\ IF prepared.error # None
          THEN RunRaises(name, prepared.error)
          ELSE /\ pc' = "train_split"
               /\ frame' = [frame EXCEPT
                     !.caller = name,
                     !.train_classes = prepared.label_encoders,
                     !.counts = [c \in ColumnSet |->
                         bincount(prepared.value, c, Len(prepared.label_encoders[c]))]]
               /\ UNCHANGED <<call, arg, ret>>

\* classifier.train(train_df, ...) is called
TrainPrepareTrain ==
    /\ pc = "idle"
    /\ \E train_df \in TrainDatasets : TrainPrepareTrainOn("train", train_df)
    /\ before' = Snapshot
    /\ UNCHANGED <<min_samples_per_class, self_stop_words, models, persisted, consulted>>

\* sum of a sequence of counts
RECURSIVE sum(_)
sum(counts) == IF counts = <<>> THEN 0 ELSE Head(counts) + sum(Tail(counts))

\* train_test_split(X, y, test_size=0.2, stratify=y): the error sklearn raises
\* for these class counts, if any
stratified_split_error(counts) ==
    LET n_samples == sum(counts)
        n_test == (n_samples + 4) \div 5
        n_train == n_samples - n_test
        n_classes == Len(counts)
    IN IF n_train = 0
       THEN "ValueError: the resulting train set will be empty"
       ELSE IF \E k \in 1..n_classes : counts[k] < 2
       THEN "ValueError: The least populated class in y has only 1 member"
       ELSE IF n_train < n_classes
       THEN "ValueError: The train_size should be greater or equal to the number of classes"
       ELSE IF n_test < n_classes
       THEN "ValueError: The test_size should be greater or equal to the number of classes"
       ELSE None

\* test_df is None: one stratified split per column; which classes reach the
\* validation part is the library's choice
TrainStratifiedSplit ==
    /\ pc = "train_split"
    /\ frame.caller = "train"
    /\ LET failing == {i \in 1..Len(Columns) :
                          stratified_split_error(frame.counts[Columns[i]]) # None}
           n_test == (sum(frame.counts["category"]) + 4) \div 5
       IN IF failing # {}
          THEN /\ RunRaises(frame.caller,
                      stratified_split_error(frame.counts[Columns[
                          CHOOSE i \in failing : \A j \in failing : i <= j]]))
          ELSE /\ \E ids \in [ColumnSet -> SUBSET (0..(Len(LabelOrder) - 1))] :
                    /\ \A c \in ColumnSet :
                          /\ ids[c] # {}
                          /\ ids[c] \subseteq 0..(Len(frame.counts[c]) - 1)
                          /\ Cardinality(ids[c]) <= n_test
                    /\ frame' = [frame EXCEPT !.val_ids = ids, !.n_val = n_test, !.col = 1]
               /\ pc' = "train_fit"
               /\ UNCHANGED <<call, arg, ret>>
    /\ UNCHANGED <<min_samples_per_class, self_stop_words, label_encoders, models, persisted, consulted, before>>

\* prepared_test_df = self.prepare_data(test_df): the encoders are fitted again
TrainPrepareTestOn(test_df) ==
    LET prepared == prepare_data(test_df, min_samples_per_class, label_encoders)
    IN /\ label_encoders' = prepared.label_encoders
       /\ IF prepared.error # None
          THEN RunRaises(frame.caller, prepared.error)
          ELSE /\ pc' = "train_fit"
               /\ frame' = [frame EXCEPT
                     !.val_ids = [c \in ColumnSet |->
                                     0..(Len(prepared.label_encoders[c]) - 1)],
                     !.n_val = Len(prepared.value),
                     !.col = 1]
               /\ UNCHANGED <<call, arg, ret>>

\* train was called with a test_df; train_and_save_model passes val_df
TrainPrepareTest ==
    /\ pc = "train_split"
    /\ IF frame.caller = "train"
       THEN \E test_df \in TrainDatasets : TrainPrepareTestOn(test_df)
       ELSE TrainPrepareTestOn(base_rows(frame.val_df))
    /\ UNCHANGED <<min_samples_per_class, self_stop_words, models, persisted, consulted, before>>

\* what evaluating the fitted model of a column raises, if anything:
\* predict on no sample, classification_report with target_names of another
\* length than the labels met, _perform_error_analysis indexing class_names
evaluation_error(model, val_ids, n_val, classes_) ==
    IF n_val = 0
    THEN "ValueError: Found array with 0 sample(s)"
    ELSE LET y_pred == model_predict(model)
         IN IF Cardinality(val_ids \cup {y_pred}) # Len(classes_)
            THEN "ValueError: Number of classes does not match size of target_names"
            ELSE IF y_pred >= Len(classes_)
                 THEN "IndexError: index out of bounds"
                 ELSE None

\* one pass of the loop over the columns: build_model, fit, evaluate
TrainFitColumn ==
    /\ pc = "train_fit"
    /\ LET column == Columns[frame.col]
           n_classes == Len(frame.counts[column])
       IN \/ \* fit raises: self.models[column] holds the unfitted search
             /\ models' = [models EXCEPT ![column] = UnfittedModel]
             /\ RunRaises(frame.caller, "ValueError: fit failed")
             /\ UNCHANGED persisted
          \/ \E probas \in ProbaVectors(n_classes) :
               LET model == FittedModel(probas)
                   error == evaluation_error(model, frame.val_ids[column], frame.n_val,
                                             label_encoders[column])
               IN /\ models' = [models EXCEPT ![column] = model]
                  /\ UNCHANGED persisted
                  /\ IF error # None
                     THEN RunRaises(frame.caller, error)
                     ELSE IF frame.col < Len(Columns)
                     THEN /\ frame' = [frame EXCEPT !.col = frame.col + 1]
                          /\ UNCHANGED <<pc, call, arg, ret>>
                     ELSE IF frame.caller = "train"
                     THEN Finish("train", <<>>, Returned(TRUE))
                     ELSE /\ pc' = "save_model"
                          /\ UNCHANGED <<frame, call, arg, ret>>
    /\ UNCHANGED <<min_samples_per_class, self_stop_words, label_encoders, consulted, before>>

----------------------------------------------------------------------------
(* clean_dataframe and train_and_save_model *)

digits == {"0", "1", "2", "3", "4", "5", "6", "7", "8", "9"}
permitted_punctuation == {".", ",", "!", "?", "@", "#", "$", "%", "&", "*", "(", ")"}

\* str.replace(r'[^\w\s.,!?@#$%&*()]', ' ', regex=True), one character
clean_char(ch) ==
    IF \/ IsUpper(ch) \/ IsLower(ch) \/ ch \in digits \/ ch = "_"
       \/ IsSpace(ch) \/ ch \in permitted_punctuation
    THEN ch
    ELSE " "

clean_text(text) == [i \in 1..Len(text) |-> clean_char(text[i])]

\* x['crimeaditionalinfo'].str.strip() != ''
has_text(r) == \E i \in 1..Len(r.crimeaditionalinfo) : ~IsSpace(r.crimeaditionalinfo[i])

\* drop_duplicates(subset='crimeaditionalinfo'): the first of each text stays
RECURSIVE drop_duplicates(_, _)
drop_duplicates(df, seen) ==
    IF df = <<>>
    THEN <<>>
    ELSE IF Head(df).crimeaditionalinfo \in seen
         THEN drop_duplicates(Tail(df), seen)
         ELSE <<Head(df)>> \o
              drop_duplicates(Tail(df), seen \cup {Head(df).crimeaditionalinfo})

very_short_text == 20

\* clean_dataframe(df, is_training)[0]
clean_dataframe(df, is_training) ==
    LET non_empty == SelectSeq(df, has_text)
        cleaned == [i \in 1..Len(non_empty) |->
                       [non_empty[i] EXCEPT
                           !.crimeaditionalinfo = clean_text(non_empty[i].crimeaditionalinfo)]]
        LongEnough(r) == Len(r.crimeaditionalinfo) >= very_short_text
    IN IF is_training
       THEN SelectSeq(drop_duplicates(cleaned, {}), LongEnough)
       ELSE cleaned

\* train_and_save_model is called: the files are read and cleaned, a new
\* classifier is constructed and prepares the training data
SaveLoadAndPrepareTrain ==
    /\ pc = "idle"
    /\ before' = [models |-> [c \in ColumnSet |-> NoModel], persisted |-> persisted]
    /\ models' = [c \in ColumnSet |-> NoModel]
    /\ \E T \in 1..MaxT : \E train_df \in TrainDatasets :
        LET train_df_cleaned == clean_dataframe(train_df, TRUE)
            prepared == prepare_data(train_df_cleaned, T, [c \in ColumnSet |-> <<>>])
        IN /\ min_samples_per_class' = T
           /\ self_stop_words' = stop_words
           /\ label_encoders' = prepared.label_encoders
           /\ IF prepared.error # None
              THEN RunRaises("train_and_save_model", prepared.error)
              ELSE /\ pc' = "save_prepare_test"
                   /\ frame' = [NoFrame EXCEPT !.caller = "train_and_save_model",
                                               !.train_df_filtered = prepared.value]
                   /\ UNCHANGED <<call, arg, ret>>
    /\ UNCHANGED <<persisted, consulted>>

\* test_df_filtered = classifier.prepare_data(test_df_cleaned)
SavePrepareTest ==
    /\ pc = "save_prepare_test"
    /\ \E test_df \in TrainDatasets :
        LET prepared == prepare_data(clean_dataframe(test_df, FALSE),
                                     min_samples_per_class, label_encoders)
        IN /\ label_encoders' = prepared.label_encoders
           /\ IF prepared.error # None
              THEN RunRaises("train_and_save_model", prepared.error)
              ELSE /\ pc' = "save_split"
                   /\ UNCHANGED <<frame, call, arg, ret>>
    /\ UNCHANGED <<min_samples_per_class, self_stop_words, models, persisted, consulted, before>>

\* the rows of df at the positions ids, in order
RECURSIVE take(_, _, _)
take(df, ids, i) ==
    IF i > Len(df)
    THEN <<>>
    ELSE (IF i \in ids THEN <<df[i]>> ELSE <<>>) \o take(df, ids, i + 1)

\* df with the row at position first moved to the front
to_front(df, first) ==
    <<df[first]>> \o take(df, (1..Len(df)) \ {first}, 1)

\* train_final, val_df = train_test_split(train_df_filtered, test_size=0.1):
\* which rows go where, and which comes first, is the library's shuffle
SaveSplit ==
    /\ pc = "save_split"
    /\ LET n_samples == Len(frame.train_df_filtered)
           n_test == (n_samples + 9) \div 10
           n_train == n_samples - n_test
       IN IF n_train <= 0
          THEN RunRaises("train_and_save_model",
                         "ValueError: the resulting train set will be empty")
          ELSE \E val \in SUBSET (1..n_samples) :
                 /\ Cardinality(val) = n_test
                 /\ \E first \in 1..n_train :
                      /\ frame' = [frame EXCEPT
                            !.train_final =
                                to_front(take(frame.train_df_filtered,
                                              (1..n_samples) \ val, 1), first),
                            !.val_df = take(frame.train_df_filtered, val, 1)]
                 /\ pc' = "save_train"
                 /\ UNCHANGED <<call, arg, ret>>
    /\ UNCHANGED <<min_samples_per_class, self_stop_words, label_encoders, models, persisted, consulted, before>>

\* classifier.train(train_final, val_df)
SaveTrain ==
    /\ pc = "save_train"
    /\ TrainPrepareTrainOn("train_and_save_model", base_rows(frame.train_final))
    /\ UNCHANGED <<min_samples_per_class, self_stop_words, models, persisted, consulted, before>>

\* joblib.dump(classifier, model_filename): written, or the write raises
SaveModel ==
    /\ pc = "save_model"
    /\ \/ /\ persisted' = persisted \cup {"model"}
          /\ pc' = "save_metrics"
          /\ UNCHANGED <<frame, call, arg, ret>>
       \/ /\ RunRaises("train_and_save_model", "OSError")
          /\ UNCHANGED persisted
    /\ UNCHANGED <<min_samples_per_class, self_stop_words, label_encoders, models, consulted, before>>

\* json.dump(metrics, f): written, or the write raises
SaveMetrics ==
    /\ pc = "save_metrics"
    /\ \/ /\ persisted' = persisted \cup {"metrics"}
          /\ Finish("train_and_save_model", <<>>, Returned(<<"model", "metrics">>))
       \/ /\ RunRaises("train_and_save_model", "OSError")
          /\ UNCHANGED persisted
    /\ UNCHANGED <<min_samples_per_class, self_stop_words, label_encoders, models, consulted, before>>

\* the metrics dict of train_and_save_model: each key with the keys of the
\* dict it holds (none for a scalar)
metrics ==
    [timestamp |-> {},
     training_time |-> {},
     data_shapes |-> {"initial_train", "filtered_train", "validation", "test"},
     class_counts |-> {"category", "sub_category"}]

\* the keys the entry point reads from the metrics file, in order
main_reads == <<"training_time", "model_performance", "data_analysis">>

\* the first key of keys that record lacks, or None
first_missing(keys, record) ==
    IF \A i \in 1..Len(keys) : keys[i] \in DOMAIN record
    THEN None
    ELSE LET i == CHOOSE i \in 1..Len(keys) :
                      /\ keys[i] \notin DOMAIN record
                      /\ \A j \in 1..(i - 1) : keys[j] \in DOMAIN record
         IN keys[i]

\* the entry point after train_and_save_model: it reads the metrics file
\* back and prints fields of it; any exception, the run's own or a KeyError
\* of the reads, ends in sys.exit(1)
Main ==
    /\ pc = "returned"
    /\ call = "train_and_save_model"
    /\ LET missing == first_missing(main_reads, metrics)
       IN Finish("__main__", <<>>,
                 IF ret.error # None THEN Raised("SystemExit: " \o ret.error)
                 ELSE IF missing # None THEN Raised("SystemExit: KeyError " \o missing)
                 ELSE Returned(<<>>))
    /\ UNCHANGED <<min_samples_per_class, self_stop_words, label_encoders, models, persisted,
                   consulted, before>>

\* DatasetAnalyzer.prepare_data(df): the class defines neither
\* preprocess_text nor min_samples_per_class nor label_encoders, so the
\* first statement that reads self raises, whatever df holds
AnalyzerPrepareData ==
    /\ pc = "idle"
    /\ before' = Snapshot
    /\ Finish("DatasetAnalyzer.prepare_data", <<>>,
              Raised("AttributeError: 'DatasetAnalyzer' object has no attribute 'preprocess_text'"))
    /\ UNCHANGED <<min_samples_per_class, self_stop_words, label_encoders, models, persisted, consulted>>

----------------------------------------------------------------------------
(* The classifier in use *)

Next ==
    \/ PrepareData
    \/ PreprocessText
    \/ Predict
    \/ TrainPrepareTrain
    \/ TrainStratifiedSplit
    \/ TrainPrepareTest
    \/ TrainFitColumn
    \/ SaveLoadAndPrepareTrain
    \/ SavePrepareTest
    \/ SaveSplit
    \/ SaveTrain
    \/ SaveModel
    \/ SaveMetrics
    \/ Main
    \/ AnalyzerPrepareData
    \/ Return

Spec == Init /\ [][Next]_vars

----------------------------------------------------------------------------
(* The text normalizer on its own: a specification that hands one value to *)
(* preprocess_text, in an environment where one step of it may raise.      *)

WordUpi == <<"U", "p", "i">>
WordFrauds == <<"f", "r", "a", "u", "d", "s">>
WordHelps == <<"h", "e", "l", "p", "s">>
WordPlease == <<"P", "l", "e", "a", "s", "e">>
WordTo == <<"t", "o">>
Word42 == <<"4", "2">>
WordSir == <<"s", "i", "r", ",">>
WordNan == <<"n", "a", "n">>
WordNone == <<"N", "o", "n", "e">>

\* the words texts are made of, and the longest text in words
Words == {WordUpi, WordFrauds, WordHelps, WordPlease, WordTo, Word42, WordSir}
MaxWords == 3

\* values handed to preprocess_text: strings, and values that are not
\* strings with what str() makes of them
Values ==
    {[type |-> "str", words |-> ws] : ws \in SeqsUpTo(Words, MaxWords)}
    \cup {[type |-> "int", words |-> <<Word42>>],
          [type |-> "float", words |-> <<WordNan>>],
          [type |-> "NoneType", words |-> <<WordNone>>]}

\* the step of preprocess_text that raises in this environment, if any:
\* str() of an object, word_tokenize without its punkt resource, lemmatize
\* without its wordnet resource
FailingSteps == {None, "str", "word_tokenize", "lemmatize"}

\* str(text): the words separated by single spaces
py_str(value) == join(value.words)

\* an except clause that lets the error out
preprocess_text_reraise(error) == Raised(error)

\* except Exception: print the error, return ""
preprocess_text_except(error) == Returned(<<>>)

\* preprocess_text(text) with its try / except, on any value
preprocess_text_try(value, failing) ==
    LET text == py_str(value)
        tokens == word_tokenize(strip_special(lower(text)))
    IN IF failing = "str" /\ value.type # "str"
       THEN preprocess_text_except("TypeError: __str__ raised")
       ELSE IF failing = "word_tokenize"
       THEN preprocess_text_except("LookupError: Resource punkt not found")
       ELSE IF failing = "lemmatize" /\ \E i \in 1..Len(tokens) : keep_token(tokens[i])
       THEN preprocess_text_except("LookupError: Resource wordnet not found")
       ELSE Returned(preprocess_text(text))

PreprocessTextCall ==
    /\ call = "__init__"
    /\ \E value \in Values : \E failing \in FailingSteps :
        /\ call' = "preprocess_text"
        /\ arg' = [value |-> value, failing |-> failing]
        /\ ret' = preprocess_text_try(value, failing)
    /\ UNCHANGED <<classifier, consulted>>

NextNormalizer == PreprocessTextCall

SpecNormalizer == Init /\ [][NextNormalizer]_vars

----------------------------------------------------------------------------
(* The label encoder on its own: a specification that fits one encoder on  *)
(* a set of names and then encodes a name or decodes an id.                *)

\* a transform that numbers the classes from 1
transform_from_one(classes_, name) ==
    IF \E i \in 1..Len(classes_) : classes_[i] = name
    THEN Returned(encode(classes_, name) + 1)
    ELSE Raised("ValueError: y contains previously unseen labels")

\* LabelEncoder.transform of one label: its id, or the error for a label
\* that was not there at fit time
transform(classes_, name) ==
    IF \E i \in 1..Len(classes_) : classes_[i] = name
    THEN Returned(encode(classes_, name))
    ELSE Raised("ValueError: y contains previously unseen labels")

\* classes_[id] for an id that is not negative: the name, or IndexError
inverse_transform(classes_, id) ==
    IF id < Len(classes_)
    THEN Returned(decode(classes_, id))
    ELSE Raised("IndexError: index out of bounds")

LabelNames == {LabelOrder[i] : i \in 1..Len(LabelOrder)}

EncoderFit ==
    /\ call = "__init__"
    /\ \E labels \in SUBSET LabelNames :
        /\ label_encoders' = [label_encoders EXCEPT !["category"] = fit_classes(labels)]
        /\ call' = "fit"
        /\ arg' = labels
        /\ ret' = Returned(fit_classes(labels))
    /\ UNCHANGED <<min_samples_per_class, self_stop_words, models, persisted, consulted, pc, frame, before>>

EncoderTransform ==
    /\ call = "fit"
    /\ \E name \in LabelNames :
        /\ call' = "transform"
        /\ arg' = name
        /\ ret' = transform(label_encoders["category"], name)
    /\ UNCHANGED <<classifier, consulted>>

EncoderInverseTransform ==
    /\ call = "fit"
    /\ \E id \in 0..Len(LabelOrder) :
        /\ call' = "inverse_transform"
        /\ arg' = id
        /\ ret' = inverse_transform(label_encoders["category"], id)
    /\ UNCHANGED <<classifier, consulted>>

NextEncoder ==
    \/ EncoderFit
    \/ EncoderTransform
    \/ EncoderInverseTransform

SpecEncoder == Init /\ [][NextEncoder]_vars

----------------------------------------------------------------------------
(* build_model's class weights on their own: a specification that hands    *)
(* one array of encoded labels to build_model.  A weight is the quotient   *)
(* numpy computes, kept as numerator and denominator; numpy's division by  *)
(* zero gives inf and a warning, not an exception: denominator 0.          *)

\* np.unique(class_labels): the distinct ids, ascending
RECURSIVE np_unique_from(_, _)
np_unique_from(ids, id) ==
    IF ids = {} THEN <<>>
    ELSE IF id \in ids THEN <<id>> \o np_unique_from(ids \ {id}, id + 1)
    ELSE np_unique_from(ids, id + 1)

np_unique(class_labels) ==
    np_unique_from({class_labels[i] : i \in 1..Len(class_labels)}, 0)

\* the largest element of a non-empty array
np_max(class_labels) ==
    CHOOSE m \in {class_labels[i] : i \in 1..Len(class_labels)} :
        \A i \in 1..Len(class_labels) : class_labels[i] <= m

\* np.bincount(class_labels): position id + 1 holds the number of
\* occurrences of id, for every id from 0 to the largest one present
np_bincount(class_labels) ==
    IF class_labels = <<>> THEN <<>>
    ELSE [k \in 1..(np_max(class_labels) + 1) |->
             Cardinality({i \in 1..Len(class_labels) : class_labels[i] = k - 1})]

\* class_weight=None
NoWeights == <<>>

\* dict(zip(keys, values)): pairs by position, as far as the shorter goes
dict_zip(keys, values) ==
    LET n == IF Len(keys) < Len(values) THEN Len(keys) ELSE Len(values)
    IN [key \in {keys[i] : i \in 1..n} |->
           values[CHOOSE i \in 1..n : keys[i] = key]]

\* the class_weights build_model hands to the RandomForestClassifier
class_weights(class_labels) ==
    LET n_samples == Len(class_labels)
        n_classes == Len(np_unique(class_labels))
        counts == np_bincount(class_labels)
    IN IF n_classes > 1
       THEN dict_zip(np_unique(class_labels),
                     [k \in 1..Len(counts) |->
                         [num |-> n_samples, den |-> n_classes * counts[k]]])
       ELSE NoWeights

LabelArrays == UNION {[1..n -> 0..MaxClassId] : n \in 0..MaxLabels}

\* classifier.build_model(class_labels)
BuildModel ==
    /\ pc = "idle"
    /\ \E class_labels \in LabelArrays :
        /\ call' = "build_model"
        /\ arg' = class_labels
        /\ ret' = Returned(class_weights(class_labels))
    /\ UNCHANGED <<classifier, consulted>>

NextWeights == BuildModel

SpecWeights == Init /\ [][NextWeights]_vars

----------------------------------------------------------------------------
(* Properties of the class filter (SpecFilter) *)

\* support of a label value: the number of records of df that carry it
Support(df, column, v) == Cardinality({i \in 1..Len(df) : df[i][column] = v})

\* C6: in the dataset filter_rare_classes returns, every category value and
\* every sub_category value that occurs has at least min_samples_per_class
\* records in that returned dataset.
C6_OutputSupportAtLeastT ==
    (call = "filter_rare_classes" /\ ret.error = None) =>
        \A c \in ColumnSet : \A i \in 1..Len(ret.value) :
            Support(ret.value, c, ret.value[i][c]) >= min_samples_per_class

\* C7: filter_rare_classes applied to its own output returns that output
\* unchanged, same records in the same order.
C7_FilterIdempotent ==
    call = "filter_rare_classes again" => (ret.error = None /\ ret.value = arg)

\* the records of df whose category and sub_category both have support >= T in df
RetainedIndependently(df, T) ==
    LET Keep(r) == /\ Support(df, "category", r.category) >= T
                   /\ Support(df, "sub_category", r.sub_category) >= T
    IN SelectSeq(df, Keep)

\* the records of df whose category has support >= T in df and whose
\* sub_category has support >= T among the records of such categories
RetainedInSequence(df, T) ==
    LET Frequent(i) == Support(df, "category", df[i].category) >= T
        Keep(r) == /\ Support(df, "category", r.category) >= T
                   /\ Cardinality({i \in 1..Len(df) :
                          Frequent(i) /\ df[i].sub_category = r.sub_category}) >= T
    IN SelectSeq(df, Keep)

----------------------------------------------------------------------------
(* Properties of the predictor (Spec) *)

ResultKeys == {"category", "category_confidence", "sub_category", "sub_category_confidence"}

PredictReturned == pc = "returned" /\ call = "predict"

\* C1: whatever the text and whatever the state of the two models, predict
\* returns a dictionary holding exactly the keys category,
\* category_confidence, sub_category and sub_category_confidence, and no
\* exception reaches its caller.
C1_PredictWellFormed ==
    PredictReturned => (ret.error = None /\ DOMAIN ret.value = ResultKeys)

\* predict has answered a text that normalizes to words while the category
\* model was fitted and the sub_category model could not answer
C1_Witness ==
    /\ PredictReturned
    /\ Len(processed[arg]) > 0
    /\ models["category"].state = "fitted"
    /\ models["sub_category"].state = "unfitted"

\* what the claims expect of one column whose model answers with probas
ThresholdedAnswer(column, model, classes_) ==
    IF py_max(model.probas) < ConfidenceThreshold
    THEN <<Unknown, 0>>
    ELSE <<classes_[model_predict(model) + 1], py_max(model.probas)>>

ColumnAnswer(column) == <<ret.value[column], ret.value[confidence_key[column]]>>

\* C2 as claimed: for each column whose model yields a probability vector,
\* a maximum below 0.3 gives the label Unknown with confidence 0.0, and a
\* maximum of 0.3 or more gives the decoded name of the predicted class with
\* the maximum as confidence.
C2_ThresholdPerColumn ==
    (PredictReturned /\ Len(processed[arg]) > 0) =>
        \A c \in ColumnSet :
            (/\ models[c].state = "fitted"
             /\ model_predict(models[c]) < Len(label_encoders[c])) =>
                ColumnAnswer(c) = ThresholdedAnswer(c, models[c], label_encoders[c])

\* C3 as claimed: with a text that normalizes to words, a column whose model
\* is missing, cannot answer or cannot be decoded gets Unknown / 0.0, and the
\* other column gets what it produces on its own.
C3_FailureStaysInColumn ==
    (PredictReturned /\ Len(processed[arg]) > 0) =>
        \A c \in ColumnSet :
            ColumnAnswer(c) =
                IF \/ models[c].state # "fitted"
                   \/ model_predict(models[c]) >= Len(label_encoders[c])
                THEN <<Unknown, 0>>
                ELSE ThresholdedAnswer(c, models[c], label_encoders[c])

\* C4: when the text normalizes to the empty string, predict returns Unknown
\* with confidence 0.0 for both columns and asks neither model, trained or not.
C4_EmptyTextIsUnknown ==
    (PredictReturned /\ Len(processed[arg]) = 0) =>
        /\ ret.error = None
        /\ DOMAIN ret.value = ResultKeys
        /\ \A c \in ColumnSet : ColumnAnswer(c) = <<Unknown, 0>>
        /\ consulted = {}

\* predict has answered a non-empty text that normalizes to nothing while
\* both models were fitted and confident
C4_Witness ==
    /\ PredictReturned
    /\ arg = TextPolite
    /\ \A c \in ColumnSet :
          /\ models[c].state = "fitted"
          /\ py_max(models[c].probas) >= ConfidenceThreshold

\* C5: every label predict returns for a column is a class name its label
\* encoder holds at that time, or Unknown.
C5_LabelsFromEncoder ==
    PredictReturned =>
        \A c \in ColumnSet :
            \/ ret.value[c] = Unknown
            \/ \E i \in 1..Len(label_encoders[c]) : label_encoders[c][i] = ret.value[c]

\* predict has returned a class name for a column whose encoder was fitted
\* again, on other classes, after the model was
C5_Witness ==
    /\ PredictReturned
    /\ ret.value["category"] # Unknown
    /\ Len(models["category"].probas) # Len(label_encoders["category"])

----------------------------------------------------------------------------
(* Properties of data preparation and training (Spec) *)

InsufficientData == "ValueError: No samples remaining after filtering rare classes"

\* the dataset prepare_data hands to the class filter
WithUnknownRows(df) == add_unknown(add_unknown(df, "category"), "sub_category")

\* C9: when the class filter leaves no record, prepare_data raises the
\* insufficient-data error; and whenever that error leaves prepare_data,
\* train or train_and_save_model, both models are what they were when the
\* call began and no artifact has been written.
C9_InsufficientDataTrainsNothing ==
    /\ (/\ pc = "returned"
        /\ call = "prepare_data"
        /\ Len(arg) > 0
        /\ RetainedInSequence(WithUnknownRows(arg), min_samples_per_class) = <<>>) =>
            ret.error = InsufficientData
    /\ (/\ pc = "returned"
        /\ call \in {"prepare_data", "train", "train_and_save_model"}
        /\ ret.error = InsufficientData) =>
            /\ models = before.models
            /\ persisted = before.persisted

\* train has raised the insufficient-data error on a classifier that held a
\* fitted model
C9_Witness ==
    /\ pc = "returned"
    /\ call = "train"
    /\ ret.error = InsufficientData
    /\ before.models["category"].state = "fitted"

\* C10 as claimed: after a successful prepare_data, every class held by a
\* column's label encoder has at least min_samples_per_class records in the
\* dataset prepare_data returns, the one the encoders were fitted on.
C10_EncoderClassesHaveSupport ==
    (pc = "returned" /\ call = "prepare_data" /\ ret.error = None) =>
        \A c \in ColumnSet : \A i \in 1..Len(label_encoders[c]) :
            Support(ret.value, c, label_encoders[c][i]) >= min_samples_per_class

----------------------------------------------------------------------------
(* Properties of a training run (Spec) *)

\* train has run its last statement without raising
TrainCompletes ==
    /\ pc = "train_fit"
    /\ \/ pc' = "save_model"
       \/ pc' = "returned" /\ ret'.error = None

\* C11 as claimed: when a training run with a separate validation dataset
\* completes, each column's label encoder holds the classes, in the order,
\* that encoded the labels its model was fitted on: the encoder was fitted
\* once, on the training dataset.
C11_EncoderOfTheFittedLabels ==
    [][TrainCompletes => label_encoders' = frame.train_classes]_vars

----------------------------------------------------------------------------
(* Properties of the label encoder (SpecEncoder) *)

\* position of a name in alphabetical order
Rank(name) == CHOOSE i \in 1..Len(LabelOrder) : LabelOrder[i] = name

FittedNames == {label_encoders["category"][i] : i \in 1..Len(label_encoders["category"])}

\* C12: after fitting on n names the classes are those names, each once, in
\* sorted order, so the ids are 0..n-1; encoding a fitted name gives an id
\* that decodes to the name, decoding an id of 0..n-1 gives a name that
\* encodes to the id, and encoding a name that was not fitted fails.
C12_EncoderRoundTrip ==
    LET classes_ == label_encoders["category"]
        n == Len(classes_)
    IN /\ call = "fit" =>
            /\ FittedNames = arg
            /\ n = Cardinality(arg)
            /\ \A i, j \in 1..n : i < j => Rank(classes_[i]) < Rank(classes_[j])
       /\ call = "transform" =>
            IF arg \in FittedNames
            THEN /\ ret.error = None
                 /\ ret.value \in 0..(n - 1)
                 /\ inverse_transform(classes_, ret.value) = Returned(arg)
            ELSE ret.error # None
       /\ (call = "inverse_transform" /\ arg < n) =>
            /\ ret.error = None
            /\ ret.value \in FittedNames
            /\ transform(classes_, ret.value) = Returned(arg)

\* a fitted name other than the first has been encoded, with names left out
C12_Witness ==
    /\ call = "transform"
    /\ ret.error = None
    /\ ret.value = 2
    /\ FittedNames # LabelNames

----------------------------------------------------------------------------
(* Properties of the text normalizer (SpecNormalizer) *)

\* the token each word of the vocabulary becomes once lowercased and
\* stripped of everything but letters; <<>> when nothing is left of it
InputToken(word) ==
    CASE word = WordUpi -> <<"u", "p", "i">>
      [] word = WordFrauds -> <<"f", "r", "a", "u", "d", "s">>
      [] word = WordHelps -> <<"h", "e", "l", "p", "s">>
      [] word = WordPlease -> <<"p", "l", "e", "a", "s", "e">>
      [] word = WordTo -> <<"t", "o">>
      [] word = Word42 -> <<>>
      [] word = WordSir -> <<"s", "i", "r">>
      [] word = WordNan -> <<"n", "a", "n">>
      [] word = WordNone -> <<"n", "o", "n", "e">>

\* the lemmas of the input tokens that are no stop words and have at least
\* 3 characters, in input order
RECURSIVE SurvivingLemmas(_)
SurvivingLemmas(words) ==
    IF words = <<>> THEN <<>>
    ELSE LET token == InputToken(Head(words))
         IN (IF token # <<>> /\ token \notin stop_words /\ Len(token) >= 3
             THEN <<lemmatize(token)>> ELSE <<>>)
            \o SurvivingLemmas(Tail(words))

\* s1 \o " " \o s2 \o ... for a sequence of texts
RECURSIVE SpaceJoined(_)
SpaceJoined(texts) ==
    IF texts = <<>> THEN <<>>
    ELSE IF Len(texts) = 1 THEN texts[1]
    ELSE texts[1] \o <<" ">> \o SpaceJoined(Tail(texts))

PreprocessTextReturned == call = "preprocess_text"

\* whether the failing step of the environment is reached for this value
StepRaises ==
    \/ arg.failing = "str" /\ arg.value.type # "str"
    \/ arg.failing = "word_tokenize"
    \/ arg.failing = "lemmatize" /\ SurvivingLemmas(arg.value.words) # <<>>

\* C13: preprocess_text lets no error out: for a string or any other value,
\* when a step of the normalization raises, the call returns the empty
\* string.
C13_NormalizerNeverRaises ==
    PreprocessTextReturned =>
        /\ ret.error = None
        /\ StepRaises => ret.value = <<>>

\* the lemmatizer has raised on a string of which a token survives
C13_Witness ==
    /\ PreprocessTextReturned
    /\ arg.failing = "lemmatize"
    /\ arg.value.type = "str"
    /\ Len(SurvivingLemmas(arg.value.words)) = 2
    /\ ret.value = <<>>

\* C14 as claimed: the preprocess_text that runs returns the empty string
\* when 0, 1 or 2 tokens survive the stop-word and length filter, and a
\* non-empty space-joined string of tokens when 3 or more survive.
C14_FewerThanThreeTokensIsEmpty ==
    (PreprocessTextReturned /\ ~StepRaises) =>
        IF Len(SurvivingLemmas(arg.value.words)) < 3
        THEN ret.value = <<>>
        ELSE ret.value = SpaceJoined(SurvivingLemmas(arg.value.words))

\* C20: the filter runs on the tokens and the lemmatizer on what it keeps:
\* the output is the space-joined sequence of the lemmas of the input tokens
\* that are no stop words and have at least 3 characters, in input order.
C20_FilterBeforeLemmatize ==
    (PreprocessTextReturned /\ ~StepRaises) =>
        ret.value = SpaceJoined(SurvivingLemmas(arg.value.words))

\* a text has been normalized that holds a stop word, a short word and a
\* word whose lemma is a stop word
C20_Witness ==
    /\ PreprocessTextReturned
    /\ arg.failing = None
    /\ arg.value.words = <<WordPlease, WordHelps, WordTo>>
    /\ ret.value = <<"h", "e", "l", "p">>

----------------------------------------------------------------------------
(* Properties of the classifier's normalizer over time (Spec) *)

\* C15: whatever prepare_data, train, predict and train_and_save_model
\* calls came before, the classifier's stop words are those of its
\* construction and preprocess_text returns for a text what it returns on a
\* new classifier: two applications to the same text agree.
C15_NormalizerDeterministic ==
    /\ self_stop_words = stop_words
    /\ (pc = "returned" /\ call = "preprocess_text") => ret.value = preprocess_text(arg)

\* a text has been normalized, to words, on a classifier that was trained
\* and asked for a prediction before
C15_Witness ==
    /\ pc = "returned"
    /\ call = "preprocess_text"
    /\ ret.value # <<>>
    /\ \A c \in ColumnSet : models[c].state = "fitted"

----------------------------------------------------------------------------
(* Stages of a run of train_and_save_model (Spec) *)

StageOrder == <<"RAW", "CLEANED", "FILTERED", "ENCODED", "SPLIT", "FITTED", "EVALUATED",
                "PERSISTED">>

StageRank(stage) == CHOOSE i \in 1..Len(StageOrder) : StageOrder[i] = stage

InRun == frame.caller = "train_and_save_model"

\* the stage the run has completed last when it stands at pc
StageCompleted ==
    CASE pc = "save_prepare_test" -> "ENCODED"
      [] pc = "save_split" -> "ENCODED"
      [] pc = "save_train" -> "SPLIT"
      [] pc = "train_split" -> "ENCODED"
      [] pc = "train_fit" /\ frame.col = 1 -> "ENCODED"
      [] pc = "train_fit" /\ frame.col = 2 -> "EVALUATED"
      [] pc = "save_model" -> "EVALUATED"
      [] pc = "save_metrics" -> "PERSISTED"
      [] OTHER -> "RAW"

\* C16 as claimed: a run goes through RAW, CLEANED, FILTERED, ENCODED, SPLIT,
\* FITTED, EVALUATED, PERSISTED in this order and never enters an earlier
\* stage after a later one: the stage completed last never moves back
\* while the run lasts.
C16_StagesInOrder ==
    [][(InRun /\ InRun') => StageRank(StageCompleted') >= StageRank(StageCompleted)]_vars

----------------------------------------------------------------------------
(* Persistence *)

RunReturned == pc = "returned" /\ call = "train_and_save_model"

\* C17: a run of train_and_save_model that fails leaves nothing persisted,
\* and a run that succeeds leaves both artifacts: at the end of a run the
\* model artifact and the metrics artifact have been written together or
\* not at all.
C17_NoPartialPersistence ==
    RunReturned =>
        /\ ret.error # None => persisted = before.persisted
        /\ ret.error = None => persisted = before.persisted \cup {"model", "metrics"}

\* the fields the metrics record is documented to hold that the code names
DocumentedFields == {"timestamp", "training_time", "data_shapes", "class_counts"}

\* C18: the metrics record of a successful run holds every documented
\* field, and the entry point, reading the record back after a successful
\* run, finds every field it reads.
C18_MetricsRecordComplete ==
    [][(RunReturned /\ ret.error = None /\ call' = "__main__") =>
           /\ DocumentedFields \subseteq DOMAIN metrics
           /\ ret'.error = None]_vars

----------------------------------------------------------------------------
(* Inference leaves the classifier as it found it *)

PredictStep == pc = "idle" /\ pc' = "returned" /\ call' = "predict"

\* C19: a predict call, whatever the text and whether it answers with a
\* class or with Unknown, leaves the two models, the two label encoders,
\* min_samples_per_class and the stop words as they were, and its result is
\* the one a further predict call on the same text returns in the state it
\* leaves.
C19_PredictLeavesClassifier ==
    [][PredictStep =>
           /\ UNCHANGED <<models, label_encoders, min_samples_per_class, self_stop_words>>
           /\ ret'.value = predict(arg', models', label_encoders').value]_vars

\* predict has answered a text with a class of each column on a classifier
\* whose two models are fitted
C19_Witness ==
    /\ PredictReturned
    /\ \A c \in ColumnSet :
          /\ models[c].state = "fitted"
          /\ ret.value[c] # Unknown

----------------------------------------------------------------------------
(* Properties of build_model's class weights (SpecWeights) *)

BuildModelReturned == call = "build_model" /\ ret.error = None

\* the number of occurrences of class id c in labels
count(labels, c) == Cardinality({i \in 1..Len(labels) : labels[i] = c})

ClassIds(labels) == {labels[i] : i \in 1..Len(labels)}

\* C21: for an array of encoded labels with more than one distinct class,
\* build_model gives every class id c that occurs the weight
\* n_samples / (n_classes * count(c)), a finite number, so that weight times
\* count is the same for all classes and a rarer class never weighs less
\* than a more frequent one; with a single class no weights are set.
C21_WeightsInverseToFrequency ==
    BuildModelReturned =>
        LET n_samples == Len(arg)
            n_classes == Cardinality(ClassIds(arg))
            weight == ret.value
        IN IF n_classes > 1
           THEN /\ DOMAIN weight = ClassIds(arg)
                /\ \A c \in ClassIds(arg) :
                      /\ weight[c].den # 0
                      /\ weight[c].num * n_classes * count(arg, c) = n_samples * weight[c].den
                /\ \A c, d \in ClassIds(arg) :
                      count(arg, c) <= count(arg, d) =>
                          weight[c].num * weight[d].den >= weight[d].num * weight[c].den
           ELSE weight = NoWeights

----------------------------------------------------------------------------
(* Confidence values predict returns (Spec) *)

\* C22: in every result of predict, whichever way it was produced, each
\* column is either Unknown with confidence 0, or has a confidence of at
\* least the threshold; no confidence lies strictly between 0 and the
\* threshold.
C22_NoConfidenceBelowThreshold ==
    PredictReturned =>
        \A c \in ColumnSet :
            \/ ret.value[c] = Unknown /\ ret.value[confidence_key[c]] = 0
            \/ ret.value[confidence_key[c]] >= ConfidenceThreshold

\* predict has answered a text that normalizes to words with two fitted
\* models, one whose best probability is below the threshold and one whose
\* best probability reaches it
C22_Witness ==
    /\ PredictReturned
    /\ Len(processed[arg]) > 0
    /\ \A c \in ColumnSet : models[c].state = "fitted"
    /\ \E c \in ColumnSet :
          /\ py_max(models[c].probas) < ConfidenceThreshold
          /\ ret.value[confidence_key[c]] = 0
    /\ \E c \in ColumnSet : ret.value[confidence_key[c]] >= ConfidenceThreshold

----------------------------------------------------------------------------
(* The synthetic records of prepare_data (Spec) *)

NoUnknownLabel(df) ==
    \A i \in 1..Len(df) : \A c \in ColumnSet : df[i][c] # Unknown

PrepareDataReturned == pc = "returned" /\ call = "prepare_data" /\ ret.error = None

\* C23: when min_samples_per_class is at least 2 and the input has no
\* "Unknown" label in either column, the one synthetic record prepare_data
\* adds per column does not survive the class filter: every record of the
\* prepared dataset it returns is a record of the input.
C23_NoSyntheticRecordSurvives ==
    (/\ PrepareDataReturned
     /\ min_samples_per_class >= 2
     /\ NoUnknownLabel(arg)) =>
        \A i \in 1..Len(ret.value) :
            /\ \E j \in 1..Len(arg) : base_row(ret.value[i]) = arg[j]
            /\ \A c \in ColumnSet : ret.value[i][c] # Unknown

\* prepare_data has returned records for an input without "Unknown" labels
\* on a classifier whose min_samples_per_class is at least 2
C23_Witness ==
    /\ PrepareDataReturned
    /\ min_samples_per_class >= 2
    /\ NoUnknownLabel(arg)
    /\ Len(arg) > 0
    /\ Len(ret.value) > 0

=============================================================================
